---- MODULE Spec2Model ----
(***************************************************************************)
(* Model of cachetools' memoizing decorators (cachetools/func.py) and of   *)
(* the key functions they use (cachetools/keys.py).                        *)
(*                                                                         *)
(* The specifications of this module:                                      *)
(*   Spec      the cached callable produced by one preset decorator:       *)
(*             wrapper calls, cache_clear and the TTL time source;         *)
(*   SpecKey   the key functions applied to pairs of calls;                *)
(*   SpecHash  one key: made by one of the four key functions, then hashed *)
(*             repeatedly;                                                 *)
(*   SpecThreads  two threads calling one cached callable, statement by    *)
(*             statement, with or without a lock around every call;        *)
(*   SpecTwo   one preset decorator applied to two functions.              *)
(***************************************************************************)
EXTENDS Integers, Sequences, FiniteSets, TLC

(***************************************************************************)
(* Bounds of the model.                                                    *)
(***************************************************************************)
MaxSize == 2
MaxOps == 5
MaxTimedOps == 3
MaxTime == 11
MaxArgs == 2
MaxHashes == 3
MaxCalls == 3
MaxEach == 3

(***************************************************************************)
(* Python values.  A value is a record of its runtime type and payload.    *)
(* Floats are modelled by their integral payload: PyFloat(2) is 2.0.       *)
(***************************************************************************)
PyInt(n) == [t |-> "int", v |-> n]
PyFloat(n) == [t |-> "float", v |-> n]
PyStr(s) == [t |-> "str", v |-> s]
TypeObj(n) == [t |-> "type", v |-> n]
UnhashableList == [t |-> "list", v |-> 0]
NoValue == [t |-> "NoneType", v |-> 0]

IsNum(x) == x.t \in {"int", "float"}

\* Python's ==: numbers compare by value across int and float, everything
\* else by type and payload.
PyEq(x, y) ==
    IF IsNum(x) /\ IsNum(y) THEN x.v = y.v
    ELSE x.t = y.t /\ x.v = y.v

\* type(v)
TypeOf(x) == TypeObj(x.t)

Hashable(x) == x.t # "list"

\* Keyword names and their string order (sorted() compares the names).
NameOrder == <<"a", "b">>
NameRank(n) == CHOOSE i \in 1..Len(NameOrder) : NameOrder[i] = n
TypeNames == <<"int", "float", "str", "type", "_HashedTuple">>
TypeRank(n) == CHOOSE i \in 1..Len(TypeNames) : TypeNames[i] = n

HashBits == 8
HashMod == 2 ^ HashBits

\* hash() of one element: equal numbers hash equally whatever their type.
PyHash(x) ==
    CASE IsNum(x) -> x.v % HashMod
      [] x.t = "str" -> 100 + NameRank(x.v)
      [] x.t = "type" -> 200 + TypeRank(x.v)
      [] OTHER -> 0

(***************************************************************************)
(* keys.py                                                                 *)
(***************************************************************************)
\* tuple.__hash__: an order-sensitive combination of the element hashes.
RECURSIVE TupleHash(_)
TupleHash(k) ==
    IF k = <<>> THEN 7
    ELSE (TupleHash(SubSeq(k, 1, Len(k) - 1)) * 31 + PyHash(k[Len(k)])) % HashMod

\* _HashedTuple.__hash__: the tuple hash, memoized in the instance.
HashedTupleHash(k) == TupleHash(k)

\* _HashedTuple equality is tuple equality: same length, elements ==.
KeyEq(k1, k2) ==
    /\ Len(k1) = Len(k2)
    /\ \A i \in 1..Len(k1) : PyEq(k1[i], k2[i])

KeyHashable(k) == \A i \in 1..Len(k) : Hashable(k[i])

\* _kwmark = (_HashedTuple,)
kwmark == <<TypeObj("_HashedTuple")>>

\* sorted(kwargs.items()): the (name, value) pairs in ascending name order.
\* kwargs is the sequence of pairs in the order the caller wrote them.
RECURSIVE sorted(_)
sorted(items) ==
    IF items = <<>> THEN <<>>
    ELSE LET m == CHOOSE i \in 1..Len(items) :
                    \A j \in 1..Len(items) :
                        NameRank(items[i][1]) <= NameRank(items[j][1])
             rest == [j \in 1..(Len(items) - 1) |->
                        IF j < m THEN items[j] ELSE items[j + 1]]
         IN  <<items[m]>> \o sorted(rest)

\* sum appending every (name, value) pair as one element of the key.
RECURSIVE sum_pairs(_, _)
sum_pairs(pairs, start) ==
    IF pairs = <<>> THEN start
    ELSE sum_pairs(Tail(pairs),
                   start \o <<[t |-> "tuple", v |-> <<PyStr(pairs[1][1]), pairs[1][2]>>]>>)

\* sum(pairs, start): tuple concatenation, start + (n1, v1) + (n2, v2) + ...
RECURSIVE sum(_, _)
sum(pairs, start) ==
    IF pairs = <<>> THEN start
    ELSE sum(Tail(pairs), start \o <<PyStr(pairs[1][1]), pairs[1][2]>>)

\* hashkey without sorted(): the keyword items in the caller's order.
hashkey_unsorted(args, kwargs) ==
    IF kwargs # <<>> THEN args \o sum(kwargs, kwmark)
    ELSE args

\* hashkey without the marker between positional and keyword elements.
hashkey_unmarked(args, kwargs) ==
    IF kwargs # <<>> THEN args \o sum(sorted(kwargs), <<>>)
    ELSE args

hashkey(args, kwargs) ==
    IF kwargs # <<>> THEN args \o sum(sorted(kwargs), kwmark)
    ELSE args

\* typedkey without the types of the keyword values.
typedkey_positional_types(args, kwargs) ==
    [i \in 1..Len(args) |-> TypeOf(args[i])] \o hashkey(args, kwargs)

typedkey(args, kwargs) ==
    LET key == hashkey(args, kwargs)
        skw == sorted(kwargs)
    IN  [i \in 1..Len(args) |-> TypeOf(args[i])]
        \o [i \in 1..Len(skw) |-> TypeOf(skw[i][2])]
        \o key

\* methodkey(self, *args, **kwargs): sum(..., _kwmark) is _kwmark itself
\* when there are no keyword items.
methodkey(self, args, kwargs) ==
    <<self>> \o args \o sum(sorted(kwargs), kwmark)

typedmethodkey(self, args, kwargs) ==
    LET key == methodkey(self, args, kwargs)
        skw == sorted(kwargs)
    IN  <<TypeOf(self)>>
        \o [i \in 1..Len(args) |-> TypeOf(args[i])]
        \o [i \in 1..Len(skw) |-> TypeOf(skw[i][2])]
        \o key

(***************************************************************************)
(* The cache containers (FIFOCache, LFUCache, LRUCache, MRUCache, RRCache, *)
(* TTLCache) of the package.  A container is a sequence of entries; every  *)
(* entry costs 1.  For FIFOCache, LFUCache and RRCache the sequence is in  *)
(* insertion order, for LRUCache, MRUCache and TTLCache in order of last   *)
(* use (most recent last).                                                 *)
(***************************************************************************)
\* ttl_cache(maxsize, ttl=TTL, timer=...)
TTL == 10

\* An entry of a TTLCache is live until the timer reaches its expiry.
Live(cls, e, t) == cls = "TTLCache" => e.exp > t

\* The container without its expired entries.
Expire(cls, c, t) == SelectSeq(c, LAMBDA e : Live(cls, e, t))

\* k in cache: a live entry has a key equal to k.
Contains(cls, c, k, t) ==
    \E i \in 1..Len(c) : KeyEq(c[i].key, k) /\ Live(cls, c[i], t)

\* Position of the live entry whose key equals k, 0 when there is none.
IndexOf(cls, c, k, t) ==
    IF Contains(cls, c, k, t)
    THEN CHOOSE i \in 1..Len(c) : KeyEq(c[i].key, k) /\ Live(cls, c[i], t)
    ELSE 0

\* len(cache)
CacheLen(cls, c, t) == Len(Expire(cls, c, t))

Remove(c, i) == [j \in 1..(Len(c) - 1) |-> IF j < i THEN c[j] ELSE c[j + 1]]

\* The entry at position i becomes the most recently used one.
MoveToEnd(c, i) == Remove(c, i) \o <<c[i]>>

\* The container after a successful lookup cache[k] of the entry at i.
Touch(cls, c, i) ==
    CASE cls \in {"LRUCache", "MRUCache", "TTLCache"} -> MoveToEnd(c, i)
      [] cls = "LFUCache" -> [c EXCEPT ![i].cnt = @ + 1]
      [] OTHER -> c

\* cache[k]: the stored value and the container after the lookup (the
\* caller has checked Contains).
GetValue(cls, c, k, t) == c[IndexOf(cls, c, k, t)].val
GetItem(cls, c, k, t) == Touch(cls, c, IndexOf(cls, c, k, t))

\* The positions popitem() may remove under each policy.
Victims(cls, c) ==
    CASE cls \in {"FIFOCache", "LRUCache", "TTLCache"} -> {1}
      [] cls = "MRUCache" -> {Len(c)}
      [] cls = "LFUCache" ->
           {i \in 1..Len(c) : \A j \in 1..Len(c) : c[i].cnt <= c[j].cnt}
      [] OTHER -> 1..Len(c)

NewEntry(cls, k, v, t) ==
    [key |-> k, val |-> v,
     exp |-> IF cls = "TTLCache" THEN t + TTL ELSE 0,
     cnt |-> IF cls = "LFUCache" THEN 1 ELSE 0]

\* cache[k] = v raises ValueError("value too large") when the value alone
\* exceeds the capacity.
TooLarge(size) == 1 > size

\* cache[k] = v: the set of containers the insertion may leave (the caller
\* has checked ~TooLarge).  Expired entries are dropped first; a present key
\* is replaced; otherwise one victim is removed when the container is full.
SetItem(cls, size, c, k, v, t) ==
    LET c1 == Expire(cls, c, t)
        i  == IndexOf(cls, c1, k, t)
    IN  IF i # 0
        THEN LET e == [c1[i] EXCEPT !.val = v,
                                    !.exp = IF cls = "TTLCache" THEN t + TTL ELSE 0,
                                    !.cnt = IF cls = "LFUCache" THEN @ + 1 ELSE 0]
             IN  IF cls = "RRCache" THEN {[c1 EXCEPT ![i] = e]}
                 ELSE {Remove(c1, i) \o <<e>>}
        ELSE IF Len(c1) + 1 > size
             THEN {Remove(c1, j) \o <<NewEntry(cls, k, v, t)>> : j \in Victims(cls, c1)}
             ELSE {c1 \o <<NewEntry(cls, k, v, t)>>}

(***************************************************************************)
(* func.py: the state of one cached callable.                              *)
(*   preset, maxsize, typed, func   the decorator and what it was given    *)
(*   cache, hits, misses            the closure of wrapper                 *)
(*   now                            the reading of the TTL timer           *)
(*   last                           what the last operation did            *)
(*   held, used, born, scen         history variables, see below           *)
(* and, for the key functions: kfn, kin, kout, khash.                      *)
(* The life of one key (SpecHash):                                         *)
(*   hfn, hcall     the key function and the call it is applied to         *)
(*   hstate, hkey   "new", then "made" with the key the function returned  *)
(*   hvalue         the hash value stored in the key instance, None at     *)
(*                  first                                                  *)
(*   hruns, hrets   how often the tuple hash was computed, and what every  *)
(*                  hash request returned                                  *)
(* Threads calling the cached callable (SpecThreads):                      *)
(*   locking        whether the callers hold one lock around every call    *)
(*                  and around cache_clear                                 *)
(*   lock           the thread holding that lock, 0 when it is free        *)
(*   pc, tcall      per thread: the statement of wrapper it is at and the  *)
(*                  call it is making                                      *)
(*   treg           per thread: the counter value it has loaded            *)
(*   started        calls begun since construction                         *)
(*   looked, misslooks, funcalls, inserts, lost                            *)
(*                  counted since the last cache_clear: lookups completed, *)
(*                  lookups that missed, invocations of func, insertions   *)
(*                  attempted, counter increments overwritten              *)
(* One decorator applied to several functions (SpecTwo):                   *)
(*   ndec           how many functions have been decorated                 *)
(*   stores         the containers created so far                          *)
(*   fcache, fhits, fmisses                                                *)
(*                  per cached callable: the container its closure refers  *)
(*                  to (an index into stores) and its counters             *)
(*   flast          the last operation and the callable it was made on     *)
(***************************************************************************)
VARIABLES preset, maxsize, typed, func, cache, hits, misses, now,
          last, held, used, born, scen, kfn, kin, kout, khash,
          hfn, hcall, hstate, hkey, hvalue, hruns, hrets,
          locking, lock, pc, tcall, treg,
          started, looked, misslooks, funcalls, inserts, lost,
          ndec, stores, fcache, fhits, fmisses, flast

config == <<preset, maxsize, typed, func>>
keyvars == <<kfn, kin, kout, khash>>
hashvars == <<hfn, hcall, hstate, hkey, hvalue, hruns, hrets>>
thrvars == <<locking, lock, pc, tcall, treg,
             started, looked, misslooks, funcalls, inserts, lost>>
twovars == <<ndec, stores, fcache, fhits, fmisses, flast>>
vars == <<preset, maxsize, typed, func, cache, hits, misses, now,
          last, held, used, born, scen, kfn, kin, kout, khash,
          hfn, hcall, hstate, hkey, hvalue, hruns, hrets,
          locking, lock, pc, tcall, treg,
          started, looked, misslooks, funcalls, inserts, lost,
          ndec, stores, fcache, fhits, fmisses, flast>>

Presets == {"fifo_cache", "lfu_cache", "lru_cache", "mru_cache", "rr_cache", "ttl_cache"}

\* lru_cache handing FIFOCache to _make_decorator.
cache_class_lru_as_fifo ==
    CASE preset = "fifo_cache" -> "FIFOCache"
      [] preset = "lfu_cache" -> "LFUCache"
      [] preset = "lru_cache" -> "FIFOCache"
      [] preset = "mru_cache" -> "MRUCache"
      [] preset = "rr_cache" -> "RRCache"
      [] preset = "ttl_cache" -> "TTLCache"

\* ttl_cache handing LRUCache to _make_decorator.
cache_class_ttl_as_lru ==
    CASE preset = "fifo_cache" -> "FIFOCache"
      [] preset = "lfu_cache" -> "LFUCache"
      [] preset = "lru_cache" -> "LRUCache"
      [] preset = "mru_cache" -> "MRUCache"
      [] preset = "rr_cache" -> "RRCache"
      [] preset = "ttl_cache" -> "LRUCache"

\* The container class each preset hands to _make_decorator.
cache_class ==
    CASE preset = "fifo_cache" -> "FIFOCache"
      [] preset = "lfu_cache" -> "LFUCache"
      [] preset = "lru_cache" -> "LRUCache"
      [] preset = "mru_cache" -> "MRUCache"
      [] preset = "rr_cache" -> "RRCache"
      [] preset = "ttl_cache" -> "TTLCache"

\* The container built one larger than maxsize.
capacity_plus_one == maxsize + 1

\* cache = cache_class(maxsize, **kwargs): the capacity of the container.
capacity == maxsize

Call(a, kw) == [args |-> a, kwargs |-> kw]
NoCall == Call(<<>>, <<>>)

\* The calls made on the cached callable.
Calls ==
    { Call(<<PyInt(2)>>, <<>>), Call(<<PyInt(3)>>, <<>>),
      Call(<<PyInt(4)>>, <<>>), Call(<<PyFloat(2)>>, <<>>),
      Call(<<UnhashableList>>, <<>>) }

\* The argument values of a call, positional first.
ArgValues(c) == c.args \o [i \in 1..Len(c.kwargs) |-> c.kwargs[i][2]]

(***************************************************************************)
(* The wrapped functions, both deterministic:                              *)
(*   square    the sum of the squares of its arguments, a float when an    *)
(*             argument is a float; never raises;                          *)
(*   describe  the name of the type of its first argument; raises when an  *)
(*             argument equals 3.                                          *)
(***************************************************************************)
Funcs == {"square", "describe"}

RECURSIVE SumSquares(_)
SumSquares(vs) == IF vs = <<>> THEN 0 ELSE vs[1].v * vs[1].v + SumSquares(Tail(vs))

FuncRaises(f, c) ==
    f = "describe" /\ \E i \in 1..Len(ArgValues(c)) : PyEq(ArgValues(c)[i], PyInt(3))

FuncResult(f, c) ==
    LET vs == ArgValues(c)
    IN  IF f = "square"
        THEN IF \E i \in 1..Len(vs) : vs[i].t = "float"
             THEN PyFloat(SumSquares(vs)) ELSE PyInt(SumSquares(vs))
        ELSE PyStr(vs[1].t)

\* key = typedkey if typed else hashkey
key(c) == IF typed THEN typedkey(c.args, c.kwargs) ELSE hashkey(c.args, c.kwargs)

\* cache_info()
cache_info ==
    [hits |-> hits, misses |-> misses, maxsize |-> maxsize,
     currsize |-> CacheLen(cache_class, cache, now)]

InCache(c, k, t) == Contains(cache_class, c, k, t)

(***************************************************************************)
(* History variables.                                                      *)
(* held[a] is the value the last normally returning call with arguments a  *)
(* returned, as long as the entry under a's key has stayed in the          *)
(* container since (not evicted, expired or cleared); NoValue otherwise.   *)
(* born[a] is the time at which the entry under a's key was inserted, -1   *)
(* when there is no such entry or it was evicted or cleared; an entry that *)
(* expires keeps its time of insertion.                                    *)
(* used is the sequence of the keys that have an entry, least recently     *)
(* called first.                                                           *)
(* scen counts how far the operations since construction have followed the *)
(* scenario of the preset (Scenario), -1 once they have left it.           *)
(***************************************************************************)
HeldAfter(c, returned, ret, cache2, now2) ==
    [a \in Calls |->
        IF ~InCache(cache2, key(a), now2) THEN NoValue
        ELSE IF returned /\ a = c THEN ret
        ELSE held[a]]

BornAfter(c, stored, cache2) ==
    [a \in Calls |->
        IF stored /\ KeyEq(key(a), key(c)) THEN now
        ELSE IF InCache(cache, key(a), now) /\ ~InCache(cache2, key(a), now) THEN -1
        ELSE born[a]]

UsedAfter(c, returned, cache2, now2) ==
    LET k == key(c)
        u == IF returned
             THEN SelectSeq(used, LAMBDA x : ~KeyEq(x, k)) \o <<k>>
             ELSE used
    IN  SelectSeq(u, LAMBDA x : InCache(cache2, x, now2))

C2call == Call(<<PyInt(2)>>, <<>>)
C3call == Call(<<PyInt(3)>>, <<>>)
C4call == Call(<<PyInt(4)>>, <<>>)

\* The scenarios: under lru_cache the calls 2, 3, 2, 4, 3; under ttl_cache
\* the call 2 at time 0, again at time 5 and again at time 11.
Scenario ==
    CASE preset = "lru_cache" ->
           << <<"call", C2call>>, <<"call", C3call>>, <<"call", C2call>>,
              <<"call", C4call>>, <<"call", C3call>> >>
      [] preset = "ttl_cache" ->
           << <<"call", C2call>>, <<"tick", 5>>, <<"call", C2call>>,
              <<"tick", 11>>, <<"call", C2call>> >>
      [] OTHER -> <<>>

ScenAfter(kind, what) ==
    IF scen >= 0 /\ scen < Len(Scenario) /\ Scenario[scen + 1] = <<kind, what>>
    THEN scen + 1
    ELSE -1

Snapshot == [hits |-> hits, misses |-> misses,
             currsize |-> CacheLen(cache_class, cache, now)]

Result(c, outcome, ret, invoked) ==
    [op |-> "call", call |-> c, outcome |-> outcome, ret |-> ret,
     invoked |-> invoked, before |-> Snapshot]

Other(op) ==
    [op |-> op, call |-> NoCall, outcome |-> "none", ret |-> NoValue,
     invoked |-> FALSE, before |-> Snapshot]

(***************************************************************************)
(* wrapper: one call of the cached callable with the arguments of c.       *)
(***************************************************************************)
\* The TypeError of the lookup caught like a KeyError.
wrapper_unhashable_as_miss(c, k) ==
    /\ misses' = misses + 1
    /\ last' = Result(c, "miss", FuncResult(func, c), TRUE)
    /\ UNCHANGED <<cache, hits>>

\* result = cache[k] raises TypeError when the key cannot be hashed; it is
\* not a KeyError and leaves wrapper.
wrapper_unhashable(c, k) ==
    /\ last' = Result(c, "TypeError", NoValue, FALSE)
    /\ UNCHANGED <<cache, hits, misses>>

\* A hit counted as a miss.
wrapper_hit_as_miss(c, k) ==
    /\ misses' = misses + 1
    /\ cache' = GetItem(cache_class, cache, k, now)
    /\ last' = Result(c, "hit", GetValue(cache_class, cache, k, now), FALSE)
    /\ UNCHANGED hits

\* result = cache[k]; hits += 1; return result
wrapper_hit(c, k) ==
    /\ hits' = hits + 1
    /\ cache' = GetItem(cache_class, cache, k, now)
    /\ last' = Result(c, "hit", GetValue(cache_class, cache, k, now), FALSE)
    /\ UNCHANGED misses

\* The insertion made before the result is bound: None is stored.
wrapper_store_none(c, k, result) ==
    IF TooLarge(capacity)
    THEN cache' = cache
    ELSE \E nc \in SetItem(cache_class, capacity, cache, k, NoValue, now) :
            cache' = nc

\* try: cache[k] = result / except ValueError: pass
wrapper_store(c, k, result) ==
    IF TooLarge(capacity)
    THEN cache' = cache
    ELSE \E nc \in SetItem(cache_class, capacity, cache, k, result, now) :
            cache' = nc

\* The miss counted only after func has returned.
wrapper_miss_counted_late(c, k) ==
    /\ UNCHANGED hits
    /\ IF FuncRaises(func, c)
       THEN /\ last' = Result(c, "raise", NoValue, TRUE)
            /\ cache' = cache
            /\ UNCHANGED misses
       ELSE /\ misses' = misses + 1
            /\ last' = Result(c, "miss", FuncResult(func, c), TRUE)
            /\ wrapper_store(c, k, FuncResult(func, c))

\* The ValueError of the insertion not caught.
wrapper_miss_uncaught(c, k) ==
    /\ misses' = misses + 1
    /\ UNCHANGED hits
    /\ IF FuncRaises(func, c)
       THEN /\ last' = Result(c, "raise", NoValue, TRUE)
            /\ cache' = cache
       ELSE IF TooLarge(capacity)
       THEN /\ last' = Result(c, "ValueError", NoValue, TRUE)
            /\ cache' = cache
       ELSE /\ last' = Result(c, "miss", FuncResult(func, c), TRUE)
            /\ wrapper_store(c, k, FuncResult(func, c))

\* except KeyError: misses += 1; result = func(...); store; return result
wrapper_miss(c, k) ==
    /\ misses' = misses + 1
    /\ UNCHANGED hits
    /\ IF FuncRaises(func, c)
       THEN /\ last' = Result(c, "raise", NoValue, TRUE)
            /\ cache' = cache
       ELSE /\ last' = Result(c, "miss", FuncResult(func, c), TRUE)
            /\ wrapper_store(c, k, FuncResult(func, c))

\* How many counted calls a run makes between two cache_clear; fewer under
\* ttl_cache, where the runs also pass through the readings of the timer.
CallBound == IF preset = "ttl_cache" THEN MaxTimedOps ELSE MaxOps

wrapper(c) ==
    /\ hits + misses < CallBound
    /\ LET k == key(c)
       IN  IF ~KeyHashable(k) THEN wrapper_unhashable(c, k)
           ELSE IF InCache(cache, k, now) THEN wrapper_hit(c, k)
           ELSE wrapper_miss(c, k)
    /\ held' = HeldAfter(c, last'.outcome \in {"hit", "miss"}, last'.ret, cache', now)
    /\ born' = BornAfter(c, last'.outcome = "miss" /\ InCache(cache', key(c), now), cache')
    /\ used' = UsedAfter(c, last'.outcome \in {"hit", "miss"}, cache', now)
    /\ scen' = ScenAfter("call", c)
    /\ UNCHANGED <<config, now, keyvars, hashvars, thrvars, twovars>>

\* cache_clear resetting hits only.
cache_clear_keeps_misses ==
    /\ cache' = <<>>
    /\ hits' = 0
    /\ UNCHANGED misses
    /\ last' = Other("clear")
    /\ held' = [a \in Calls |-> NoValue]
    /\ born' = [a \in Calls |-> -1]
    /\ used' = <<>>
    /\ scen' = -1
    /\ UNCHANGED <<config, now, keyvars, hashvars, thrvars, twovars>>

\* cache_clear()
cache_clear ==
    /\ cache' = <<>>
    /\ hits' = 0
    /\ misses' = 0
    /\ last' = Other("clear")
    /\ held' = [a \in Calls |-> NoValue]
    /\ born' = [a \in Calls |-> -1]
    /\ used' = <<>>
    /\ scen' = -1
    /\ UNCHANGED <<config, now, keyvars, hashvars, thrvars, twovars>>

\* The time source handed to ttl_cache advances.
TickSteps == {5, 6}

Tick ==
    /\ preset = "ttl_cache"
    /\ \E d \in TickSteps :
          /\ now + d <= MaxTime
          /\ now' = now + d
    /\ last' = Other("tick")
    /\ held' = HeldAfter(NoCall, FALSE, NoValue, cache, now')
    /\ used' = UsedAfter(NoCall, FALSE, cache, now')
    /\ scen' = ScenAfter("tick", now')
    /\ UNCHANGED <<config, cache, hits, misses, born, keyvars, hashvars, thrvars, twovars>>

KeyIdle ==
    /\ kfn = "hashkey"
    /\ kin = <<NoCall, NoCall>>
    /\ kout = <<>>
    /\ khash = <<>>

\* __hashvalue = None
None == -1

HashIdle ==
    /\ hfn = "hashkey"
    /\ hcall = NoCall
    /\ hstate = "new"
    /\ hkey = <<>>
    /\ hvalue = None
    /\ hruns = 0
    /\ hrets = <<>>

Threads == {1, 2}

ThreadsIdle ==
    /\ lock = 0
    /\ pc = [t \in Threads |-> "idle"]
    /\ tcall = [t \in Threads |-> NoCall]
    /\ treg = [t \in Threads |-> 0]
    /\ started = 0
    /\ looked = 0
    /\ misslooks = 0
    /\ funcalls = 0
    /\ inserts = 0
    /\ lost = 0

\* The functions the decorator is applied to, in this order.
Decorated == <<"square", "describe">>
Insts == 1..Len(Decorated)

TwoIdle ==
    /\ ndec = 0
    /\ stores = <<>>
    /\ fcache = [i \in Insts |-> 0]
    /\ fhits = [i \in Insts |-> 0]
    /\ fmisses = [i \in Insts |-> 0]
    /\ flast = [op |-> "init", inst |-> 0]

\* decorator(func): cache = cache_class(maxsize, **kwargs); hits = misses = 0
\* (maxsize is any integer the caller passes, a negative one included).
Fresh ==
    /\ cache = <<>>
    /\ hits = 0
    /\ misses = 0
    /\ now = 0
    /\ last = [op |-> "init", call |-> NoCall, outcome |-> "none", ret |-> NoValue,
               invoked |-> FALSE, before |-> [hits |-> 0, misses |-> 0, currsize |-> 0]]
    /\ held = [a \in Calls |-> NoValue]
    /\ born = [a \in Calls |-> -1]
    /\ used = <<>>
    /\ scen = 0

Init ==
    /\ preset \in Presets
    /\ maxsize \in (-1)..MaxSize
    /\ typed \in BOOLEAN
    /\ func \in Funcs
    /\ Fresh
    /\ KeyIdle
    /\ HashIdle
    /\ locking = FALSE
    /\ ThreadsIdle
    /\ TwoIdle

Next ==
    \/ \E c \in Calls : wrapper(c)
    \/ cache_clear
    \/ Tick

Spec == Init /\ [][Next]_vars

(***************************************************************************)
(* The key functions on their own: SpecKey draws a key function and two    *)
(* calls, and GenKeys applies the function to both and hashes the keys.    *)
(***************************************************************************)
KeyFns == {"hashkey", "typedkey"}
KeyValues == {PyInt(1), PyFloat(1)}
Names == {NameOrder[i] : i \in 1..Len(NameOrder)}

\* Positional arguments: up to MaxArgs values.
ArgSeqs == UNION {[1..n -> KeyValues] : n \in 0..MaxArgs}

\* Keyword arguments in the order the caller wrote them: distinct names.
KwSeqs ==
    {kw \in UNION {[1..n -> Names \X KeyValues] : n \in 0..Len(NameOrder)} :
        \A i, j \in 1..Len(kw) : i # j => kw[i][1] # kw[j][1]}

KeyCalls == {Call(a, kw) : a \in ArgSeqs, kw \in KwSeqs}

\* The method key functions take the receiver as first positional argument.
ApplyKey(f, c) ==
    CASE f = "hashkey" -> hashkey(c.args, c.kwargs)
      [] f = "typedkey" -> typedkey(c.args, c.kwargs)
      [] f = "methodkey" -> methodkey(c.args[1], Tail(c.args), c.kwargs)
      [] f = "typedmethodkey" -> typedmethodkey(c.args[1], Tail(c.args), c.kwargs)

GenKeys ==
    /\ kout = <<>>
    /\ kout' = <<ApplyKey(kfn, kin[1]), ApplyKey(kfn, kin[2])>>
    /\ khash' = <<HashedTupleHash(kout'[1]), HashedTupleHash(kout'[2])>>
    /\ UNCHANGED <<config, cache, hits, misses, now, last, held, used, born,
                   scen, kfn, kin, hashvars, thrvars, twovars>>

InitKey ==
    /\ preset = "lru_cache"
    /\ maxsize = MaxSize
    /\ typed = FALSE
    /\ func = "square"
    /\ Fresh
    /\ kfn \in KeyFns
    /\ kin \in KeyCalls \X KeyCalls
    /\ kout = <<>>
    /\ khash = <<>>
    /\ HashIdle
    /\ locking = FALSE
    /\ ThreadsIdle
    /\ TwoIdle

NextKey == GenKeys

SpecKey == InitKey /\ [][NextKey]_vars

(***************************************************************************)
(* One key from its making on: SpecHash draws one of the four key          *)
(* functions and a call, whose values may be unhashable; MakeKey applies   *)
(* the function and HashKey is one hash(key) request on the instance.      *)
(***************************************************************************)
MethodKeyFns == {"methodkey", "typedmethodkey"}
AllKeyFns == KeyFns \cup MethodKeyFns
HashValues == KeyValues \cup {UnhashableList}

HashCalls ==
    {Call(a, kw) :
        a \in UNION {[1..n -> HashValues] : n \in 0..MaxArgs},
        kw \in {q \in UNION {[1..n -> Names \X HashValues] : n \in 0..Len(NameOrder)} :
                  \A i, j \in 1..Len(q) : i # j => q[i][1] # q[j][1]}}

Ok(n) == [ok |-> TRUE, v |-> n]
TypeError == [ok |-> FALSE, v |-> 0]

\* A key function that hashes the argument values it is given.
MakeKey_hashing ==
    /\ hstate = "new"
    /\ IF KeyHashable(ArgValues(hcall))
       THEN hstate' = "made" /\ hkey' = ApplyKey(hfn, hcall)
       ELSE hstate' = "failed" /\ hkey' = hkey
    /\ UNCHANGED <<config, cache, hits, misses, now, last, held, used, born,
                   scen, keyvars, hfn, hcall, hvalue, hruns, hrets, thrvars, twovars>>

\* key = hashkey(...) and the like: the key functions build a tuple out of
\* the argument values and hash none of them.
MakeKey ==
    /\ hstate = "new"
    /\ hstate' = "made"
    /\ hkey' = ApplyKey(hfn, hcall)
    /\ UNCHANGED <<config, cache, hits, misses, now, last, held, used, born,
                   scen, keyvars, hfn, hcall, hvalue, hruns, hrets, thrvars, twovars>>

\* __hash__ storing nothing in the instance.
HashKey_unstored ==
    /\ hstate = "made"
    /\ Len(hrets) < MaxHashes
    /\ hruns' = hruns + 1
    /\ hvalue' = hvalue
    /\ hrets' = Append(hrets, IF KeyHashable(hkey) THEN Ok(TupleHash(hkey)) ELSE TypeError)
    /\ UNCHANGED <<config, cache, hits, misses, now, last, held, used, born,
                   scen, keyvars, hfn, hcall, hstate, hkey, thrvars, twovars>>

\* _HashedTuple.__hash__: hashvalue = self.__hashvalue; if it is None the
\* tuple hash is computed and stored; tuple.__hash__ raises TypeError on an
\* unhashable element, before anything is stored.
HashKey ==
    /\ hstate = "made"
    /\ Len(hrets) < MaxHashes
    /\ IF hvalue # None
       THEN /\ hrets' = Append(hrets, Ok(hvalue))
            /\ UNCHANGED <<hvalue, hruns>>
       ELSE /\ hruns' = hruns + 1
            /\ IF KeyHashable(hkey)
               THEN /\ hvalue' = TupleHash(hkey)
                    /\ hrets' = Append(hrets, Ok(TupleHash(hkey)))
               ELSE /\ hvalue' = hvalue
                    /\ hrets' = Append(hrets, TypeError)
    /\ UNCHANGED <<config, cache, hits, misses, now, last, held, used, born,
                   scen, keyvars, hfn, hcall, hstate, hkey, thrvars, twovars>>

InitHash ==
    /\ preset = "lru_cache"
    /\ maxsize = MaxSize
    /\ typed = FALSE
    /\ func = "square"
    /\ Fresh
    /\ KeyIdle
    /\ hfn \in AllKeyFns
    /\ hcall \in HashCalls
    /\ hfn \in MethodKeyFns => Len(hcall.args) >= 1
    /\ hstate = "new"
    /\ hkey = <<>>
    /\ hvalue = None
    /\ hruns = 0
    /\ hrets = <<>>
    /\ locking = FALSE
    /\ ThreadsIdle
    /\ TwoIdle

NextHash == MakeKey \/ HashKey

SpecHash == InitHash /\ [][NextHash]_vars

(***************************************************************************)
(* Threads.  Every thread runs wrapper statement by statement:             *)
(*   idle -> lookup -> load_hits -> store_hits -> idle                     *)
(*                  -> load_misses -> store_misses -> call -> insert -> idle *)
(* k = key(...) touches nothing shared and belongs to the first step; one  *)
(* operation of the container (cache[k], cache[k] = result, clear()) is    *)
(* one step; hits += 1 and misses += 1 are a load and a store.  When       *)
(* locking holds the caller takes the lock before wrapper and gives it     *)
(* back when wrapper returns or raises.                                    *)
(***************************************************************************)
ThreadCalls == {C2call, C3call}

\* The statements between a completed lookup and the store of the counter.
Counting == {"load_hits", "store_hits", "load_misses", "store_misses"}

rest == <<config, now, last, held, used, born, scen, keyvars, hashvars, locking,
          twovars>>

Release(t) == IF locking THEN lock' = 0 ELSE lock' = lock

\* wrapper(...) is entered: k = key(*args, **kwargs)
Enter(t, c) ==
    /\ pc[t] = "idle"
    /\ started < MaxCalls
    /\ IF locking THEN lock = 0 /\ lock' = t ELSE lock' = lock
    /\ pc' = [pc EXCEPT ![t] = "lookup"]
    /\ tcall' = [tcall EXCEPT ![t] = c]
    /\ started' = started + 1
    /\ UNCHANGED <<rest, cache, hits, misses, treg, looked, misslooks, funcalls,
                   inserts, lost>>

\* result = cache[k]: returns the value or raises KeyError
Lookup(t) ==
    /\ pc[t] = "lookup"
    /\ LET k == key(tcall[t])
       IN  IF InCache(cache, k, now)
           THEN /\ cache' = GetItem(cache_class, cache, k, now)
                /\ pc' = [pc EXCEPT ![t] = "load_hits"]
                /\ misslooks' = misslooks
           ELSE /\ cache' = cache
                /\ pc' = [pc EXCEPT ![t] = "load_misses"]
                /\ misslooks' = misslooks + 1
    /\ looked' = looked + 1
    /\ UNCHANGED <<rest, lock, hits, misses, tcall, treg, started, funcalls,
                   inserts, lost>>

\* hits += 1 / misses += 1, first half: the counter is loaded
LoadCounter(t) ==
    /\ pc[t] \in {"load_hits", "load_misses"}
    /\ treg' = [treg EXCEPT ![t] = IF pc[t] = "load_hits" THEN hits ELSE misses]
    /\ pc' = [pc EXCEPT ![t] = IF pc[t] = "load_hits" THEN "store_hits" ELSE "store_misses"]
    /\ UNCHANGED <<rest, lock, cache, hits, misses, tcall, started, looked,
                   misslooks, funcalls, inserts, lost>>

\* hits += 1 as one indivisible step.
StoreHits_atomic(t) ==
    /\ pc[t] = "store_hits"
    /\ hits' = hits + 1
    /\ lost' = lost + (hits - treg[t])
    /\ pc' = [pc EXCEPT ![t] = "idle"]
    /\ Release(t)
    /\ UNCHANGED <<rest, cache, misses, tcall, treg, started, looked, misslooks,
                   funcalls, inserts>>

\* hits += 1, second half: the loaded value plus one is stored, whatever
\* the counter holds by now; return result
StoreHits(t) ==
    /\ pc[t] = "store_hits"
    /\ hits' = treg[t] + 1
    /\ lost' = lost + (hits - treg[t])
    /\ pc' = [pc EXCEPT ![t] = "idle"]
    /\ Release(t)
    /\ UNCHANGED <<rest, cache, misses, tcall, treg, started, looked, misslooks,
                   funcalls, inserts>>

\* A miss counted in hits.
StoreMisses_as_hits(t) ==
    /\ pc[t] = "store_misses"
    /\ hits' = treg[t] + 1
    /\ lost' = lost + (misses - treg[t])
    /\ pc' = [pc EXCEPT ![t] = "call"]
    /\ UNCHANGED <<rest, lock, cache, misses, tcall, treg, started, looked,
                   misslooks, funcalls, inserts>>

\* misses += 1, second half
StoreMisses(t) ==
    /\ pc[t] = "store_misses"
    /\ misses' = treg[t] + 1
    /\ lost' = lost + (misses - treg[t])
    /\ pc' = [pc EXCEPT ![t] = "call"]
    /\ UNCHANGED <<rest, lock, cache, hits, tcall, treg, started, looked,
                   misslooks, funcalls, inserts>>

\* The container looked up once more before func is called: a thread that
\* finds the key by now returns without calling func or inserting.
CallFunc_rechecked(t) ==
    /\ pc[t] = "call"
    /\ IF InCache(cache, key(tcall[t]), now)
       THEN /\ funcalls' = funcalls
            /\ pc' = [pc EXCEPT ![t] = "idle"]
            /\ Release(t)
       ELSE /\ funcalls' = funcalls + 1
            /\ IF FuncRaises(func, tcall[t])
               THEN pc' = [pc EXCEPT ![t] = "idle"] /\ Release(t)
               ELSE pc' = [pc EXCEPT ![t] = "insert"] /\ lock' = lock
    /\ UNCHANGED <<rest, cache, hits, misses, tcall, treg, started, looked,
                   misslooks, inserts, lost>>

\* result = func(*args, **kwargs): an exception of func leaves wrapper
CallFunc(t) ==
    /\ pc[t] = "call"
    /\ funcalls' = funcalls + 1
    /\ IF FuncRaises(func, tcall[t])
       THEN pc' = [pc EXCEPT ![t] = "idle"] /\ Release(t)
       ELSE pc' = [pc EXCEPT ![t] = "insert"] /\ lock' = lock
    /\ UNCHANGED <<rest, cache, hits, misses, tcall, treg, started, looked,
                   misslooks, inserts, lost>>

\* try: cache[k] = result / except ValueError: pass; return result
Insert(t) ==
    /\ pc[t] = "insert"
    /\ inserts' = inserts + 1
    /\ IF TooLarge(capacity)
       THEN cache' = cache
       ELSE \E nc \in SetItem(cache_class, capacity, cache, key(tcall[t]),
                              FuncResult(func, tcall[t]), now) :
               cache' = nc
    /\ pc' = [pc EXCEPT ![t] = "idle"]
    /\ Release(t)
    /\ UNCHANGED <<rest, hits, misses, tcall, treg, started, looked, misslooks,
                   funcalls, lost>>

\* cache_clear(), called with the lock held.
ThreadClear(t) ==
    /\ locking
    /\ lock = 0
    /\ pc[t] = "idle"
    /\ cache' = <<>>
    /\ hits' = 0
    /\ misses' = 0
    /\ looked' = 0
    /\ misslooks' = 0
    /\ funcalls' = 0
    /\ inserts' = 0
    /\ lost' = 0
    /\ UNCHANGED <<rest, lock, pc, tcall, treg, started>>

InitThreads ==
    /\ preset \in {"fifo_cache", "lru_cache"}
    /\ maxsize \in 0..MaxSize
    /\ typed = FALSE
    /\ func \in Funcs
    /\ Fresh
    /\ KeyIdle
    /\ HashIdle
    /\ locking \in BOOLEAN
    /\ ThreadsIdle
    /\ TwoIdle

NextThreads ==
    \E t \in Threads :
        \/ \E c \in ThreadCalls : Enter(t, c)
        \/ Lookup(t)
        \/ LoadCounter(t)
        \/ StoreHits(t)
        \/ StoreMisses(t)
        \/ CallFunc(t)
        \/ Insert(t)
        \/ ThreadClear(t)

SpecThreads == InitThreads /\ [][NextThreads]_vars

(***************************************************************************)
(* One decorator object, e.g. the result of one lru_cache(maxsize) call,   *)
(* applied to the functions of Decorated one after the other; the cached   *)
(* callables are then called, asked for cache_info() and cleared in any    *)
(* order.                                                                  *)
(***************************************************************************)
TwoCalls == {C2call, C3call}

aside == <<config, cache, hits, misses, now, last, held, used, born, scen,
           keyvars, hashvars, thrvars>>

\* One container made in _make_decorator and shared by every function the
\* decorator is applied to.
Decorate_shared ==
    /\ ndec < Len(Decorated)
    /\ ndec' = ndec + 1
    /\ stores' = IF stores = <<>> THEN << <<>> >> ELSE stores
    /\ fcache' = [fcache EXCEPT ![ndec + 1] = 1]
    /\ fhits' = [fhits EXCEPT ![ndec + 1] = 0]
    /\ fmisses' = [fmisses EXCEPT ![ndec + 1] = 0]
    /\ flast' = [op |-> "decorate", inst |-> ndec + 1]
    /\ UNCHANGED aside

\* decorator(func): cache = cache_class(maxsize, **kwargs); hits = misses = 0
Decorate ==
    /\ ndec < Len(Decorated)
    /\ ndec' = ndec + 1
    /\ stores' = Append(stores, <<>>)
    /\ fcache' = [fcache EXCEPT ![ndec + 1] = Len(stores) + 1]
    /\ fhits' = [fhits EXCEPT ![ndec + 1] = 0]
    /\ fmisses' = [fmisses EXCEPT ![ndec + 1] = 0]
    /\ flast' = [op |-> "decorate", inst |-> ndec + 1]
    /\ UNCHANGED aside

\* wrapper of the i-th cached callable, called with the arguments of c
TwoCall(i, c) ==
    /\ i <= ndec
    /\ fhits[i] + fmisses[i] < MaxEach
    /\ LET f == Decorated[i]
           k == key(c)
           own == stores[fcache[i]]
       IN  IF InCache(own, k, now)
           THEN /\ fhits' = [fhits EXCEPT ![i] = @ + 1]
                /\ fmisses' = fmisses
                /\ stores' = [stores EXCEPT ![fcache[i]] = GetItem(cache_class, own, k, now)]
           ELSE /\ fmisses' = [fmisses EXCEPT ![i] = @ + 1]
                /\ fhits' = fhits
                /\ IF FuncRaises(f, c) \/ TooLarge(capacity)
                   THEN stores' = stores
                   ELSE \E nc \in SetItem(cache_class, capacity, own, k,
                                          FuncResult(f, c), now) :
                           stores' = [stores EXCEPT ![fcache[i]] = nc]
    /\ flast' = [op |-> "call", inst |-> i]
    /\ UNCHANGED <<aside, ndec, fcache>>

\* cache_info() of the i-th cached callable
TwoInfo(i) ==
    /\ i <= ndec
    /\ flast' = [op |-> "info", inst |-> i]
    /\ UNCHANGED <<aside, ndec, stores, fcache, fhits, fmisses>>

\* cache_clear() of the i-th cached callable
TwoClear(i) ==
    /\ i <= ndec
    /\ stores' = [stores EXCEPT ![fcache[i]] = <<>>]
    /\ fhits' = [fhits EXCEPT ![i] = 0]
    /\ fmisses' = [fmisses EXCEPT ![i] = 0]
    /\ flast' = [op |-> "clear", inst |-> i]
    /\ UNCHANGED <<aside, ndec, fcache>>

\* cache_info() as the i-th cached callable reports it
InfoOf(i) ==
    [hits |-> fhits[i], misses |-> fmisses[i], maxsize |-> maxsize,
     currsize |-> CacheLen(cache_class, stores[fcache[i]], now)]

InitTwo ==
    /\ preset \in {"fifo_cache", "lru_cache"}
    /\ maxsize \in 1..MaxSize
    /\ typed = FALSE
    /\ func = "square"
    /\ Fresh
    /\ KeyIdle
    /\ HashIdle
    /\ locking = FALSE
    /\ ThreadsIdle
    /\ TwoIdle

NextTwo ==
    \/ Decorate
    \/ \E i \in Insts :
          \/ \E c \in TwoCalls : TwoCall(i, c)
          \/ TwoInfo(i)
          \/ TwoClear(i)

SpecTwo == InitTwo /\ [][NextTwo]_vars

(***************************************************************************)
(* Properties of the cached callable (checked under Spec).                 *)
(***************************************************************************)
\* The step is a call of the cached callable with the arguments of c.
CallStep(c) == last'.op = "call" /\ last'.call = c

Returned == last.op = "call" /\ last.outcome \in {"hit", "miss"}

\* C1: when a call with arguments c returned normally and its entry has
\* stayed in the container since (held[c] is its value), the next call with
\* c is a hit: it returns that value, does not invoke the function, adds one
\* to hits and leaves misses alone.
C1_RepeatIsHit ==
    [][\A c \in Calls :
          (CallStep(c) /\ held[c] # NoValue) =>
              /\ last'.outcome = "hit"
              /\ last'.ret = held[c]
              /\ ~last'.invoked
              /\ hits' = hits + 1
              /\ misses' = misses]_vars

\* With typed keys only the call 2 itself generates its key, so a hit on it
\* repeats an earlier call with the same arguments.
C1_Witness ==
    /\ typed /\ func = "square"
    /\ last.op = "call" /\ last.call = C2call /\ last.outcome = "hit"
    /\ last.ret = PyInt(4) /\ held[C2call] = PyInt(4)
    /\ hits = last.before.hits + 1 /\ misses = last.before.misses

Unhashable(c) == \E i \in 1..Len(ArgValues(c)) : ~Hashable(ArgValues(c)[i])

\* C2 as stated: every call that returns normally returns the value the
\* wrapped function produces for that call's own arguments.
C2_Original == Returned => PyEq(last.ret, FuncResult(func, last.call))

\* C2 amended: a call that returns normally returns the value the wrapped
\* function produces for an argument list whose key equals the key of the
\* call's arguments: its own arguments on a miss, the arguments of the call
\* that stored the entry on a hit.  Every entry of the container holds the
\* function's value for an argument list that generates its key.
C2_ValueOfEqualKey ==
    /\ (last.op = "call" /\ last.outcome = "miss") =>
          last.ret = FuncResult(func, last.call)
    /\ (last.op = "call" /\ last.outcome = "hit") =>
          \E a \in Calls :
             /\ ~Unhashable(a) /\ ~FuncRaises(func, a)
             /\ KeyEq(key(a), key(last.call))
             /\ last.ret = FuncResult(func, a)
    /\ \A i \in 1..Len(cache) :
          \E a \in Calls :
             /\ ~Unhashable(a) /\ ~FuncRaises(func, a)
             /\ KeyEq(key(a), cache[i].key)
             /\ cache[i].val = FuncResult(func, a)

\* A hit on 2.0 that returns what the function produces for 2.
C2_Witness ==
    /\ ~typed /\ func = "describe"
    /\ last.op = "call" /\ last.outcome = "hit"
    /\ last.call = Call(<<PyFloat(2)>>, <<>>)
    /\ last.ret = PyStr("int")

\* C3: when the function raises in a call that missed, the failure reaches
\* the caller, misses grows by one, hits and the container stay as they
\* were, and the key is still absent, so that repeating the call misses,
\* invokes the function and fails again.
C3_RaiseCountsMissStoresNothing ==
    [][\A c \in Calls :
          (/\ CallStep(c)
           /\ ~Unhashable(c)
           /\ ~InCache(cache, key(c), now)
           /\ FuncRaises(func, c)) =>
              /\ last'.outcome = "raise"
              /\ last'.invoked
              /\ misses' = misses + 1
              /\ hits' = hits
              /\ cache' = cache
              /\ cache_info'.currsize = cache_info.currsize
              /\ ~InCache(cache', key(c), now')]_vars

\* Three failing calls in a row: the container can hold entries, holds none,
\* and all three calls were counted as misses.
C3_Witness ==
    /\ preset # "ttl_cache" /\ maxsize >= 1
    /\ last.op = "call" /\ last.outcome = "raise" /\ last.invoked
    /\ FuncRaises(func, last.call)
    /\ misses = 3 /\ hits = 0 /\ cache = <<>>

\* C4: when the container rejects the insertion as too large (maxsize = 0
\* included), the call returns the function's result, raises nothing, and
\* the container and currsize stay as they were.
C4_TooLargeIsSwallowed ==
    [][\A c \in Calls :
          (/\ CallStep(c)
           /\ TooLarge(maxsize)
           /\ ~Unhashable(c)
           /\ ~FuncRaises(func, c)) =>
              /\ last'.outcome = "miss"
              /\ last'.ret = FuncResult(func, c)
              /\ cache' = cache
              /\ cache_info'.currsize = cache_info.currsize
              /\ ~InCache(cache', key(c), now')]_vars

C4_Witness ==
    /\ maxsize = 0
    /\ last.op = "call" /\ last.outcome = "miss"
    /\ last.ret = FuncResult(func, last.call)
    /\ misses = 2 /\ last.before.misses = 1
    /\ cache_info.currsize = 0

\* C5: right after cache_clear(), cache_info() reports no hits, no misses
\* and no entries, and the maxsize given to the decorator.
C5_ClearResets ==
    last.op = "clear" =>
        cache_info = [hits |-> 0, misses |-> 0, maxsize |-> maxsize, currsize |-> 0]

C5_Witness ==
    /\ last.op = "clear"
    /\ last.before.hits > 0 /\ last.before.misses > 0 /\ last.before.currsize > 0
    /\ cache_info.hits = 0 /\ cache_info.misses = 0 /\ cache_info.currsize = 0

\* C6: a call with an argument that cannot be hashed fails with the hashing
\* error, does not invoke the function and leaves hits, misses and the
\* container as they were.
C6_UnhashableChangesNothing ==
    [][\A c \in Calls :
          (CallStep(c) /\ Unhashable(c)) =>
              /\ last'.outcome = "TypeError"
              /\ ~last'.invoked
              /\ hits' = hits
              /\ misses' = misses
              /\ cache' = cache]_vars

C6_Witness ==
    /\ last.op = "call" /\ last.outcome = "TypeError" /\ Unhashable(last.call)
    /\ hits > 0 /\ misses > 0 /\ cache # <<>>
    /\ hits = last.before.hits /\ misses = last.before.misses

C8_Scenario ==
    (preset = "lru_cache" /\ maxsize = 2 /\ func = "square") =>
        /\ scen \in {1, 2} => (last.outcome = "miss" /\ hits = 0 /\ misses = scen)
        /\ scen = 3 => (last.outcome = "hit" /\ last.ret = PyInt(4) /\ ~last.invoked
                        /\ hits = 1 /\ misses = 2)
        /\ scen = 4 => /\ last.outcome = "miss" /\ last.ret = PyInt(16)
                       /\ hits = 1 /\ misses = 3
                       /\ ~InCache(cache, key(C3call), now)
                       /\ InCache(cache, key(C2call), now)
                       /\ InCache(cache, key(C4call), now)
        /\ scen = 5 => (last.outcome = "miss" /\ last.invoked /\ last.ret = PyInt(9)
                        /\ hits = 1 /\ misses = 4)

C8_EvictsLeastRecentlyCalled ==
    \A c \in Calls :
        (/\ CallStep(c)
         /\ preset = "lru_cache"
         /\ last'.outcome = "miss"
         /\ maxsize >= 1
         /\ Len(used) = maxsize) =>
            /\ ~InCache(cache', used[1], now')
            /\ \A i \in 2..Len(used) : InCache(cache', used[i], now')
            /\ InCache(cache', key(c), now')

\* C8: the scenario holds in every state and every evicting miss under
\* lru_cache removes the least recently called key.
C8_LRU == []C8_Scenario /\ [][C8_EvictsLeastRecentlyCalled]_vars

C8_Witness ==
    /\ preset = "lru_cache" /\ maxsize = 2 /\ func = "square"
    /\ scen = 5
    /\ last.call = C3call /\ last.outcome = "miss"
    /\ hits = 1 /\ misses = 4

\* C9: under ttl_cache a call whose entry was inserted at time born[c] is a
\* hit while the timer reads less than born[c] + TTL and a miss that invokes
\* the function once the timer reads more; with TTL = 10 the call at time 0
\* is a miss, at time 5 a hit, at time 11 a miss.
C9_Scenario ==
    (preset = "ttl_cache" /\ maxsize >= 1) =>
        /\ scen = 1 => (now = 0 /\ last.outcome = "miss")
        /\ scen = 3 => (now = 5 /\ last.outcome = "hit" /\ ~last.invoked)
        /\ scen = 5 => (now = 11 /\ last.outcome = "miss" /\ last.invoked)

C9_ExpiresAfterTTL ==
    \A c \in Calls :
        (CallStep(c) /\ preset = "ttl_cache" /\ born[c] >= 0) =>
            /\ now < born[c] + TTL => (last'.outcome = "hit" /\ ~last'.invoked)
            /\ now > born[c] + TTL => (last'.outcome = "miss" /\ last'.invoked)

\* C9: the scenario holds in every state and every call under ttl_cache
\* hits before born[c] + TTL and misses after it.
C9_TTL == []C9_Scenario /\ [][C9_ExpiresAfterTTL]_vars

C9_Witness ==
    /\ preset = "ttl_cache" /\ maxsize >= 1
    /\ scen = 5 /\ now = 11
    /\ last.call = C2call /\ last.outcome = "miss"
    /\ hits = 1 /\ misses = 2

(***************************************************************************)
(* Properties of the key functions (checked under SpecKey).                *)
(***************************************************************************)
Pairs(kw) == {kw[i] : i \in 1..Len(kw)}

\* The two calls have the same positional arguments and the same keyword
\* name-value pairs, in whatever order.
SameUpToKwOrder(c1, c2) ==
    /\ c1.args = c2.args
    /\ Pairs(c1.kwargs) = Pairs(c2.kwargs)

\* C10: hashkey gives equal keys with equal hashes to two calls that differ
\* only in the order of their keyword arguments.
C10_KwOrderIndependent ==
    (kout # <<>> /\ kfn = "hashkey" /\ SameUpToKwOrder(kin[1], kin[2])) =>
        /\ KeyEq(kout[1], kout[2])
        /\ khash[1] = khash[2]

C10_Witness ==
    /\ kout # <<>> /\ kfn = "hashkey"
    /\ SameUpToKwOrder(kin[1], kin[2])
    /\ kin[1].kwargs # kin[2].kwargs
    /\ Len(kin[1].args) > 0
    /\ KeyEq(kout[1], kout[2])

KwNames(c) == {c.kwargs[i][1] : i \in 1..Len(c.kwargs)}

\* The value passed under the keyword name n.
KwValue(c, n) == c.kwargs[CHOOSE i \in 1..Len(c.kwargs) : c.kwargs[i][1] = n][2]

\* The two calls have the same number of positional arguments and the same
\* keyword names, and corresponding values compare equal.
EqualValues(c1, c2) ==
    /\ Len(c1.args) = Len(c2.args)
    /\ KwNames(c1) = KwNames(c2)
    /\ \A i \in 1..Len(c1.args) : PyEq(c1.args[i], c2.args[i])
    /\ \A n \in KwNames(c1) : PyEq(KwValue(c1, n), KwValue(c2, n))

\* Some corresponding pair of values has different runtime types.
TypesDiffer(c1, c2) ==
    \/ \E i \in 1..Len(c1.args) : c1.args[i].t # c2.args[i].t
    \/ \E n \in KwNames(c1) : KwValue(c1, n).t # KwValue(c2, n).t

\* C11: two calls whose corresponding values compare equal but of which one
\* corresponding pair differs in runtime type get unequal keys from typedkey
\* and equal keys from hashkey.
C11_TypedKeySeparatesTypes ==
    (kout # <<>> /\ EqualValues(kin[1], kin[2]) /\ TypesDiffer(kin[1], kin[2])) =>
        /\ kfn = "typedkey" => ~KeyEq(kout[1], kout[2])
        /\ kfn = "hashkey" => KeyEq(kout[1], kout[2])

C11_Witness ==
    /\ kout # <<>> /\ kfn = "typedkey"
    /\ kin[1] = Call(<<PyInt(1)>>, <<<<"a", PyInt(1)>>>>)
    /\ kin[2] = Call(<<PyInt(1)>>, <<<<"a", PyFloat(1)>>>>)
    /\ ~KeyEq(kout[1], kout[2])
    /\ KeyEq(hashkey(kin[1].args, kin[1].kwargs), hashkey(kin[2].args, kin[2].kwargs))

HasMarker(k) == \E i \in 1..Len(k) : k[i] = kwmark[1]

\* C17: a hashkey key holds the marker exactly when the call had keyword
\* arguments; a positional-only key never equals a key of a call with
\* keyword arguments; and two equal keys come from calls with equal
\* positional arguments and equal keyword name-value pairs (the argument
\* values of KeyCalls do not contain the marker).
C17_MarkerSeparates ==
    (kout # <<>> /\ kfn = "hashkey") =>
        /\ \A i \in 1..2 : HasMarker(kout[i]) <=> kin[i].kwargs # <<>>
        /\ (kin[1].kwargs = <<>> /\ kin[2].kwargs # <<>>) => ~KeyEq(kout[1], kout[2])
        /\ KeyEq(kout[1], kout[2]) => EqualValues(kin[1], kin[2])

C17_Witness ==
    /\ kout # <<>> /\ kfn = "hashkey"
    /\ kin[1] = Call(<<PyInt(1), PyFloat(1)>>, <<>>)
    /\ kin[2] = Call(<<PyInt(1)>>, <<<<"a", PyFloat(1)>>>>)
    /\ ~HasMarker(kout[1]) /\ HasMarker(kout[2])
    /\ ~KeyEq(kout[1], kout[2])

\* C18 as stated: every keyword argument contributes one element, so that
\* n positional and m >= 1 keyword arguments give n + 1 + m elements.
C18_Original ==
    (kout # <<>> /\ kfn = "hashkey" /\ Len(kin[1].kwargs) >= 1) =>
        Len(kout[1]) = Len(kin[1].args) + 1 + Len(kin[1].kwargs)

\* C18: the key of hashkey is the positional values in call order, followed
\* when there are keyword arguments by the marker and, for every keyword
\* item in ascending name order, two elements: the name and then the value;
\* n positional and m >= 1 keyword arguments give n + 1 + 2m elements.
C18_FlattenedItems ==
    (kout # <<>> /\ kfn = "hashkey") =>
        LET c == kin[1]
            k == kout[1]
            n == Len(c.args)
            m == Len(c.kwargs)
        IN  /\ SubSeq(k, 1, n) = c.args
            /\ m = 0 => Len(k) = n
            /\ m >= 1 =>
                  /\ Len(k) = n + 1 + 2 * m
                  /\ k[n + 1] = kwmark[1]
                  /\ \A j \in 1..m :
                        /\ k[n + 2 * j].t = "str"
                        /\ k[n + 2 * j].v \in KwNames(c)
                        /\ k[n + 2 * j + 1] = KwValue(c, k[n + 2 * j].v)
                  /\ \A j \in 1..(m - 1) :
                        NameRank(k[n + 2 * j].v) < NameRank(k[n + 2 * j + 2].v)

C18_Witness ==
    /\ kout # <<>> /\ kfn = "hashkey"
    /\ kin[1] = Call(<<PyInt(1)>>, <<<<"b", PyFloat(1)>>, <<"a", PyInt(1)>>>>)
    /\ kout[1] = <<PyInt(1), kwmark[1], PyStr("a"), PyInt(1), PyStr("b"), PyFloat(1)>>

C13_MethodKeyIsHashKey ==
    hstate = "made" =>
        /\ hfn = "methodkey" => KeyEq(hkey, hashkey(hcall.args, hcall.kwargs))
        /\ hfn = "typedmethodkey" => KeyEq(hkey, typedkey(hcall.args, hcall.kwargs))

HasUnhashable(c) == ~KeyHashable(ArgValues(c))

AllIdle == \A t \in Threads : pc[t] = "idle"
At(labels) == Cardinality({t \in Threads : pc[t] \in labels})

\* C14: without a lock nothing stands between a missed lookup and the call
\* of func and the insertion: every lookup that missed is followed by an
\* invocation of func and, unless func raised, by an attempt to insert,
\* whether or not another thread has inserted the key meanwhile.  The
\* witness is the interleaving of the claim: two threads, the same call,
\* both lookups miss, func funcalls twice, two insertions attempted.
C14_MissAlwaysComputes ==
    ~locking =>
        /\ funcalls = misslooks - At({"load_misses", "store_misses", "call"})
        /\ \A t \in Threads :
              pc[t] = "insert" => ~FuncRaises(func, tcall[t])
        /\ (AllIdle /\ func = "square") => inserts = misslooks

C14_Witness ==
    /\ ~locking /\ AllIdle /\ started = 2
    /\ preset = "lru_cache" /\ maxsize = MaxSize /\ func = "square"
    /\ tcall[1] = C2call /\ tcall[2] = C2call
    /\ looked = 2 /\ misslooks = 2
    /\ funcalls = 2 /\ inserts = 2
    /\ Len(cache) = 1

\* C15: without a lock the counters are loaded and stored in two steps, so
\* hits + misses falls short of the completed lookups by exactly the
\* increments that a later store overwrote.  The witness is the interleaving
\* of the claim: both calls are over and hits + misses is smaller than the
\* number of lookups completed.
C15_CountersLoseUpdates ==
    ~locking =>
        /\ lost >= 0
        /\ hits + misses + lost + At(Counting) = looked

C15_Witness ==
    /\ ~locking /\ AllIdle /\ started = 2
    /\ looked = 2
    /\ hits + misses = 1
    /\ lost = 1

\* C16: when every call and every cache_clear is made under the lock, in
\* every state hits + misses is the number of calls since the last
\* cache_clear (or construction) whose lookup has completed and that have
\* counted, and misses is the number of invocations of func in that period,
\* calls whose func raised included.
C16_SerializedCountsExact ==
    locking =>
        /\ hits + misses = looked - At(Counting)
        /\ misses = funcalls + At({"call"})
        /\ lost = 0
        /\ lock = 0 => (AllIdle /\ hits + misses = looked /\ misses = funcalls)

C16_Witness ==
    /\ locking /\ lock = 0 /\ started = MaxCalls
    /\ func = "describe" /\ maxsize >= 1
    /\ tcall[1] = C3call /\ tcall[2] = C2call
    /\ hits = 1 /\ misses = 2 /\ looked = 3 /\ funcalls = 2

(***************************************************************************)
(* Properties of one decorator on two functions (checked under SpecTwo).   *)
(***************************************************************************)
\* Every decorated function has a container of its own.
C20_OwnContainers ==
    \A i, j \in Insts :
        (i <= ndec /\ j <= ndec /\ i # j) => fcache[i] # fcache[j]

\* A call, cache_info() or cache_clear() on one cached callable leaves the
\* hits, misses, currsize and entries of every other one as they were.
C20_OthersUntouched ==
    \A j \in Insts :
        (j <= ndec /\ flast'.op \in {"call", "info", "clear"} /\ flast'.inst # j) =>
            /\ InfoOf(j)' = InfoOf(j)
            /\ stores'[fcache'[j]] = stores[fcache[j]]

\* C20: the functions decorated by one decorator object have a container
\* and counters each, and an operation on one cached callable changes
\* nothing of the other.
C20_ScopedPerFunction == []C20_OwnContainers /\ [][C20_OthersUntouched]_vars

C20_Witness ==
    /\ ndec = 2
    /\ flast = [op |-> "call", inst |-> 1]
    /\ fhits[1] = 0 /\ fmisses[1] = 1
    /\ fhits[2] = 1 /\ fmisses[2] = 1
    /\ Len(stores[fcache[1]]) = 1 /\ Len(stores[fcache[2]]) = 1
    /\ stores[fcache[1]][1].val.t = "int"
    /\ stores[fcache[2]][1].val.t = "str"

====
